---------------------------- MODULE Spec2Model ----------------------------
(***************************************************************************)
(* The two tutorial notebooks of the repository as state machines.        *)
(*                                                                         *)
(*   Using_Reinforcement_Learning_to_Play_Pong.ipynb  (specification Spec) *)
(*     PongEnv, PongPolicy, the A2C construction, fit and the playback    *)
(*     loop.                                                               *)
(*   Molecular_Fingerprints.ipynb        (specification SpecFingerprints) *)
(*     load_tox21, MultitaskClassifier, fit and evaluate.                  *)
(*                                                                         *)
(* numpy arrays are functions on 0..n-1, so every index below is the      *)
(* index the python source writes.                                         *)
(***************************************************************************)
EXTENDS Integers, Sequences, FiniteSets, TLC

VARIABLES
  pc,        \* the notebook statement the kernel executes next
  emu,       \* the gym emulator behind env.env: what it draws on its screen
  env,       \* the global PongEnv object (undefined before its cell has run)
  policy,    \* the global PongPolicy object
  a2c,       \* the global dc.rl.A2C object
  fit,       \* a2c.fit(1000): whether it runs or has returned, and its step count
  fp         \* the Molecular_Fingerprints notebook's kernel

vars == <<pc, emu, env, policy, a2c, fit, fp>>

----------------------------------------------------------------------------
(* numpy: sizes, basic slicing, sums *)

\* len(a) of an array stored as a function on 0..n-1
Size(a) == Cardinality(DOMAIN a)

\* How python clamps one bound of a slice with a positive step:
\* a negative bound counts from the end, and the result stays within 0..n.
SliceBound(i, n) ==
  IF i < 0 THEN (IF i + n < 0 THEN 0 ELSE i + n)
  ELSE (IF i > n THEN n ELSE i)

\* len(range(start, stop, step)) for step > 0
SliceCount(start, stop, step) ==
  IF stop <= start THEN 0 ELSE (stop - start + step - 1) \div step

\* a[start:stop:step] along the first axis
Slice(a, start, stop, step) ==
  LET n == Size(a)
      s == SliceBound(start, n)
      e == SliceBound(stop, n)
  IN  [k \in 0 .. SliceCount(s, e, step) - 1 |-> a[s + k * step]]

RECURSIVE SumTo(_, _)
SumTo(v, n) == IF n = 0 THEN 0 ELSE v[n - 1] + SumTo(v, n - 1)

\* np.sum of a vector of uint8: numpy accumulates small unsigned integers in
\* the platform's unsigned integer, so three channels never wrap.
Sum(v) == SumTo(v, Size(v))

\* a.shape of a two-dimensional array
Shape2(a) == IF Size(a) = 0 THEN <<0, 0>> ELSE <<Size(a), Size(a[0])>>

----------------------------------------------------------------------------
(* The Atari screen gym hands to GymEnvironment as self._state *)

\* One RGB pixel: three uint8 channels.
Px(r, g, b) == [ch \in 0 .. 2 |-> IF ch = 0 THEN r ELSE IF ch = 1 THEN g ELSE b]

\* 'Pong-v0' observations are 210 rows x 160 columns x 3 channels.
FrameShape == <<210, 160, 3>>

\* Colours the emulator may paint. (144,72,17) is Pong's background, whose
\* channels sum to 233; (233,0,0) is another colour with that sum;
\* (255,234,0) sums to 489, which is 233 modulo 256.
\* Each scheme is a background and a sprite colour.
ColourSchemes ==
  { <<Px(144, 72, 17), Px(236, 236, 236)>>,
    <<Px(144, 72, 17), Px(255, 234, 0)>>,
    <<Px(0, 0, 0), Px(233, 0, 0)>> }

\* Where the emulator may paint the player's paddle marker: around both
\* edges of the play area, on even and odd rows and columns.
SpriteRows == {33, 34, 35, 192, 193, 194}
SpriteCols == {0, 158, 159}

\* The screen the emulator renders from its internal state.
Render(e) ==
  [r \in 0 .. FrameShape[1] - 1 |->
    [c \in 0 .. FrameShape[2] - 1 |->
      IF r = e.row /\ c = e.col THEN e.fg ELSE e.bg]]

\* gym's Pong-v0 action space is Discrete(6), with these meanings;
\* GymEnvironment copies its size into env.n_actions.  The notebook itself
\* names no number of actions in its code.
PongActionMeanings == <<"NOOP", "FIRE", "RIGHT", "LEFT", "RIGHTFIRE", "LEFTFIRE">>

\* The paddle row after an action: RIGHT moves it up, LEFT moves it down,
\* and it stays inside the rows the model paints.
MoveRow(row, act) ==
  LET m == PongActionMeanings[act + 1]
      want == IF m \in {"RIGHT", "RIGHTFIRE"} THEN row - 1
              ELSE IF m \in {"LEFT", "LEFTFIRE"} THEN row + 1
              ELSE row
  IN  IF want \in SpriteRows THEN want ELSE row

----------------------------------------------------------------------------
(* class PongEnv(dc.rl.GymEnvironment) *)

\* self._state_shape = (80, 80)
StateShape == <<80, 80>>

\* A crop that stops one row early.
CropRowsShort(frame) == Slice(frame, 34, 193, 1)

\* cropped = np.array(self._state)[34:194, :, :]
\* The two ':' keep every column and every channel of the rows kept.
CropRows(frame) == Slice(frame, 34, 194, 1)

cropped(frame) == CropRows(frame)

\* reduced = cropped[0:-1:2, 0:-1:2]
reduced(frame) ==
  LET rows == Slice(cropped(frame), 0, -1, 2)
  IN  [i \in DOMAIN rows |-> Slice(rows[i], 0, -1, 2)]

\* A sum kept in the pixels' own uint8, which wraps at 256.
ChannelSumUint8(px) == Sum(px) % 256

\* grayscale = np.sum(reduced, axis=2)
ChannelSum(px) == Sum(px)

grayscale(frame) ==
  LET red == reduced(frame)
  IN  [i \in DOMAIN red |-> [j \in DOMAIN red[i] |-> ChannelSum(red[i][j])]]

\* bw = np.zeros(grayscale.shape); bw[grayscale != 233] = 1
Threshold(g) == IF g # 233 THEN 1 ELSE 0

bw(frame) ==
  LET gray == grayscale(frame)
  IN  [i \in DOMAIN gray |-> [j \in DOMAIN gray[i] |-> Threshold(gray[i][j])]]

\* the property PongEnv.state
state(e) == bw(e._state)

----------------------------------------------------------------------------
(* tensorflow.keras layers, as far as the shapes they produce.  A tensor is *)
(* a record of the layer that produced it and its shape without the batch  *)
(* axis, as Input(shape=...) declares it.                                  *)

RECURSIVE ProdTo(_, _)
ProdTo(shape, n) == IF n = 0 THEN 1 ELSE shape[n] * ProdTo(shape, n - 1)

\* the number of elements of a tensor of this shape
Elements(shape) == ProdTo(shape, Len(shape))

Tensor(layer, shape) == [layer |-> layer, shape |-> shape]

Input(shape) == Tensor("Input", shape)

\* Reshape(target)(t); one axis of target may be -1 and is then inferred.
Reshape(target, t) ==
  LET known == Elements([k \in 1 .. Len(target) |->
                          IF target[k] = -1 THEN 1 ELSE target[k]])
      full == [k \in 1 .. Len(target) |->
                IF target[k] = -1 THEN Elements(t.shape) \div known
                ELSE target[k]]
  IN  IF Elements(full) = Elements(t.shape)
      THEN Tensor("Reshape", full)
      ELSE Tensor("ShapeError", <<>>)

\* the output length of a 'valid' convolution along one axis
ConvLength(n, kernel_size, strides) ==
  IF n < kernel_size THEN 0 ELSE (n - kernel_size) \div strides + 1

\* Conv2D(filters, kernel_size, strides)(t) on a rows x cols x channels input
Conv2D(filters, kernel_size, strides, t) ==
  IF Len(t.shape) # 3 THEN Tensor("ShapeError", <<>>)
  ELSE Tensor("Conv2D", <<ConvLength(t.shape[1], kernel_size, strides),
                          ConvLength(t.shape[2], kernel_size, strides),
                          filters>>)

Flatten(t) == Tensor("Flatten", <<Elements(t.shape)>>)

\* Dense(units, activation)(t) replaces the last axis by units
Dense(units, activation, t) ==
  IF Len(t.shape) = 0 THEN Tensor("ShapeError", <<>>)
  ELSE Tensor(IF activation = "softmax" THEN "Dense.softmax"
              ELSE IF activation = "relu" THEN "Dense.relu" ELSE "Dense",
              [k \in 1 .. Len(t.shape) |->
                IF k = Len(t.shape) THEN units ELSE t.shape[k]])

\* GRU(units, return_state=True, return_sequences=True)(t, initial_state):
\* the output sequence and the final state.  The initial state must have
\* one entry per unit.
GRU(units, t, initial_state) ==
  IF Len(t.shape) # 2 \/ initial_state.shape # <<units>>
  THEN [sequence |-> Tensor("ShapeError", <<>>),
        final_state |-> Tensor("ShapeError", <<>>)]
  ELSE [sequence |-> Tensor("GRU.sequence", <<t.shape[1], units>>),
        final_state |-> Tensor("GRU.state", <<units>>)]

\* Concatenate()([a, b]) along the last axis of two vectors
Concatenate(a, b) ==
  IF Len(a.shape) # 1 \/ Len(b.shape) # 1 THEN Tensor("ShapeError", <<>>)
  ELSE Tensor("Concatenate", <<a.shape[1] + b.shape[1]>>)

----------------------------------------------------------------------------
(* class PongPolicy(dc.rl.Policy) *)

zeros(n) == [k \in 0 .. n - 1 |-> 0]

\* super().__init__(['action_prob', 'value', 'rnn_state'], [np.zeros(16)])
PongPolicy ==
  [output_names |-> <<"action_prob", "value", "rnn_state">>,
   rnn_initial_states |-> <<zeros(16)>>]

\* An output list with value and the final state in each other's place.
ModelOutputsSwapped(action_prob, value, rnn_final_state) ==
  <<action_prob, rnn_final_state, value>>

\* The list create_model returns as the model's outputs.
ModelOutputs(action_prob, value, rnn_final_state) ==
  <<action_prob, value, rnn_final_state>>

\* PongPolicy.create_model; n_actions is what it reads from the global env.
create_model(n_actions) ==
  LET state_in == Input(StateShape)
      rnn_state == Input(<<16>>)
      conv1 == Conv2D(16, 8, 4, Reshape(<<80, 80, 1>>, state_in))
      conv2 == Conv2D(32, 4, 2, conv1)
      dense == Dense(256, "relu", Flatten(conv2))
      gru == GRU(16, Reshape(<<-1, 256>>, dense), rnn_state)
      concat == Concatenate(dense, Reshape(<<16>>, gru.sequence))
      action_prob == Dense(n_actions, "softmax", concat)
      value == Dense(1, "linear", concat)
  IN  [inputs |-> <<state_in, rnn_state>>,
       outputs |-> ModelOutputs(action_prob, value, gru.final_state)]

----------------------------------------------------------------------------
(* The notebook's code cells, in the order the file lists them *)

Undefined == [defined |-> FALSE]

\* A notebook whose playback cell comes before its fit cell.
AfterFitFirst(cell) ==
  CASE cell = "cell_env" -> "cell_policy"
    [] cell = "cell_policy" -> "cell_a2c"
    [] cell = "cell_a2c" -> "cell_play"
    [] cell = "cell_play" -> "cell_fit"
    [] cell = "cell_fit" -> "done"

\* The statement the kernel runs after a cell has finished.
After(cell) ==
  CASE cell = "cell_env" -> "cell_policy"
    [] cell = "cell_policy" -> "cell_a2c"
    [] cell = "cell_a2c" -> "cell_fit"
    [] cell = "cell_fit" -> "cell_play"
    [] cell = "cell_play" -> "done"

\* the position of a name in a python list (list.index), 1-based here
IndexOf(names, name) == CHOOSE k \in 1 .. Len(names) : names[k] = name

\* a2c.fit(1000)
TotalSteps == 1000

\* The longest rollout one iteration of fit adds to its step count.
MaxRollout == 2

\* The values the model lets every entry of the GRU's final state take.
RnnLevels == {0, 1}

\* env = PongEnv()
EnvCell ==
  /\ pc = "cell_env"
  /\ env' = [defined |-> TRUE,
             n_actions |-> Len(PongActionMeanings),
             _state_shape |-> StateShape,
             _state |-> <<>>,
             terminated |-> FALSE]
  /\ emu' = [defined |-> TRUE, reset |-> FALSE]
  /\ pc' = After("cell_env")
  /\ UNCHANGED <<policy, a2c, fit, fp>>

\* policy = PongPolicy()
PolicyCell ==
  /\ pc = "cell_policy"
  /\ policy' = [defined |-> TRUE] @@ PongPolicy
  /\ pc' = After("cell_policy")
  /\ UNCHANGED <<emu, env, a2c, fit, fp>>

\* a2c = dc.rl.A2C(env, policy, ...): the trainer builds the policy's model,
\* which reads the global env, and starts from the declared initial states.
A2CCell ==
  /\ pc = "cell_a2c"
  /\ IF env.defined /\ policy.defined
     THEN /\ a2c' = [defined |-> TRUE,
                     model |-> create_model(env.n_actions),
                     output_names |-> policy.output_names,
                     rnn_states |-> policy.rnn_initial_states]
          /\ pc' = After("cell_a2c")
     ELSE /\ a2c' = a2c
          /\ pc' = "NameError"
  /\ UNCHANGED <<emu, env, policy, fit, fp>>

\* a2c.fit(1000) is called
FitCall ==
  /\ pc = "cell_fit"
  /\ IF a2c.defined
     THEN /\ fit' = [status |-> "running", step_count |-> 0]
          /\ pc' = "fit_loop"
     ELSE /\ fit' = fit
          /\ pc' = "NameError"
  /\ UNCHANGED <<emu, env, policy, a2c, fp>>

\* one iteration of fit: a rollout on a copy of env (__deepcopy__ makes a
\* fresh PongEnv), whose length is added to the step count
FitRollout ==
  /\ pc = "fit_loop"
  /\ fit.step_count < TotalSteps
  /\ \E len \in 1 .. MaxRollout :
       fit' = [fit EXCEPT !.step_count = @ + len]
  /\ UNCHANGED <<pc, emu, env, policy, a2c, fp>>

\* fit returns once it has taken total_steps steps; its step count is a
\* local that ends with the call
FitReturn ==
  /\ pc = "fit_loop"
  /\ fit.step_count >= TotalSteps
  /\ fit' = [status |-> "returned", step_count |-> 0]
  /\ pc' = After("cell_fit")
  /\ UNCHANGED <<emu, env, policy, a2c, fp>>

\* env.reset(): the emulator starts a game and hands over its first screen
PlayReset ==
  /\ pc = "cell_play"
  /\ IF env.defined
     THEN /\ \E scheme \in ColourSchemes, row \in SpriteRows, col \in SpriteCols :
               emu' = [defined |-> TRUE, reset |-> TRUE,
                       bg |-> scheme[1], fg |-> scheme[2],
                       row |-> row, col |-> col]
          /\ env' = [env EXCEPT !._state = Render(emu'), !.terminated = FALSE]
          /\ pc' = "play_test"
     ELSE /\ UNCHANGED <<emu, env>>
          /\ pc' = "NameError"
  /\ UNCHANGED <<policy, a2c, fit, fp>>

\* while not env.terminated:
PlayTest ==
  /\ pc = "play_test"
  /\ pc' = IF env.terminated THEN After("cell_play") ELSE "play_body"
  /\ UNCHANGED <<emu, env, policy, a2c, fit, fp>>

\* The loop body: env.env.render(); env.step(a2c.select_action(env.state)).
\* select_action runs the model on the state and the saved recurrent state,
\* draws an action from the output named action_prob and saves the output
\* named rnn_state for the next call; env.step has the emulator move the
\* paddle, draw the next screen and say whether the game is over.
PlayBody ==
  /\ pc = "play_body"
  /\ IF ~a2c.defined
     THEN /\ pc' = "NameError"
          /\ UNCHANGED <<a2c, emu, env>>
     ELSE LET x == state(env)
              m == a2c.model
              probs == m.outputs[IndexOf(a2c.output_names, "action_prob")]
              final == m.outputs[IndexOf(a2c.output_names, "rnn_state")]
          IN  IF /\ Shape2(x) = m.inputs[1].shape
                 /\ <<Size(a2c.rnn_states[1])>> = m.inputs[2].shape
                 /\ Len(probs.shape) = 1
                 /\ Len(final.shape) = 1
              THEN \E act \in 0 .. probs.shape[1] - 1 :
                     IF act \in 0 .. Len(PongActionMeanings) - 1
                     THEN LET moved == [emu EXCEPT !.row = MoveRow(@, act)]
                              screen == Render(moved)
                          IN  /\ emu' = moved
                              /\ \E over \in BOOLEAN :
                                   env' = [env EXCEPT !._state = screen,
                                                      !.terminated = over]
                              /\ \E level \in RnnLevels :
                                   a2c' = [a2c EXCEPT !.rnn_states =
                                     <<[k \in 0 .. final.shape[1] - 1 |-> level]>>]
                              /\ pc' = "play_test"
                     ELSE /\ pc' = "ActionError"
                          /\ UNCHANGED <<a2c, emu, env>>
              ELSE /\ pc' = "ShapeError"
                   /\ UNCHANGED <<a2c, emu, env>>
  /\ UNCHANGED <<policy, fit, fp>>

----------------------------------------------------------------------------
(* Molecular_Fingerprints.ipynb *)

\* print(train_dataset): the shapes the notebook records for the training
\* set of dc.molnet.load_tox21(featurizer='ECFP')
TrainDataset ==
  [X |-> <<6264, 1024>>, y |-> <<6264, 12>>, w |-> <<6264, 12>>]

\* Another split of the same featurized dataset, of n samples: ECFP
\* fingerprints have one fixed length, and every sample carries a label and
\* a weight for each task.
Split(n) ==
  [X |-> <<n, TrainDataset.X[2]>>,
   y |-> <<n, TrainDataset.y[2]>>,
   w |-> <<n, TrainDataset.w[2]>>]

\* The most samples the model gives the validation and the test split.
MaxSplitRows == 2

\* The samples model.fit takes per batch.
BatchSize == 100

\* A classifier sized for fingerprints of length 2048.
MultitaskClassifierWide ==
  [defined |-> TRUE, n_tasks |-> 12, n_features |-> 2048, layer_sizes |-> <<1000>>]

\* model = dc.models.MultitaskClassifier(n_tasks=12, n_features=1024,
\*                                       layer_sizes=[1000])
MultitaskClassifier ==
  [defined |-> TRUE, n_tasks |-> 12, n_features |-> 1024, layer_sizes |-> <<1000>>]

\* model.fit(train_dataset, nb_epoch=10)
NbEpoch == 10

\* The model applied to a batch of features: one row of n_tasks predictions
\* per sample, or an error when the rows are not n_features long.
Predict(m, xshape) ==
  IF xshape[2] = m.n_features THEN <<xshape[1], m.n_tasks>> ELSE <<>>

FpStart ==
  [pc |-> "cell_load", train |-> <<>>, valid |-> <<>>, test |-> <<>>,
   model |-> Undefined, epoch |-> 0, offset |-> 0, pred |-> <<>>]

\* tasks, datasets, transformers = dc.molnet.load_tox21(featurizer='ECFP')
\* train_dataset, valid_dataset, test_dataset = datasets
LoadTox21 ==
  /\ fp.pc = "cell_load"
  /\ \E nv \in 1 .. MaxSplitRows, nt \in 1 .. MaxSplitRows :
       fp' = [fp EXCEPT !.train = TrainDataset, !.valid = Split(nv),
                        !.test = Split(nt), !.pc = "cell_model"]
  /\ UNCHANGED <<pc, emu, env, policy, a2c, fit>>

\* model = dc.models.MultitaskClassifier(...)
ModelCell ==
  /\ fp.pc = "cell_model"
  /\ fp' = [fp EXCEPT !.model = MultitaskClassifier, !.pc = "fit"]
  /\ UNCHANGED <<pc, emu, env, policy, a2c, fit>>

\* model.fit: one batch of the training set.  The batch's rows must be
\* n_features long and its labels must match the predictions.
FitBatch ==
  /\ fp.pc = "fit"
  /\ fp.epoch < NbEpoch
  /\ LET rows == IF fp.offset + BatchSize > fp.train.X[1]
                 THEN fp.train.X[1] - fp.offset ELSE BatchSize
         out == Predict(fp.model, <<rows, fp.train.X[2]>>)
         last == fp.offset + rows >= fp.train.X[1]
     IN  IF out = <<rows, fp.train.y[2]>> /\ out = <<rows, fp.train.w[2]>>
         THEN fp' = [fp EXCEPT !.offset = IF last THEN 0 ELSE @ + rows,
                               !.epoch = IF last THEN @ + 1 ELSE @]
         ELSE fp' = [fp EXCEPT !.pc = "ShapeError"]
  /\ UNCHANGED <<pc, emu, env, policy, a2c, fit>>

\* model.fit returns after nb_epoch epochs
FitDone ==
  /\ fp.pc = "fit"
  /\ fp.epoch >= NbEpoch
  /\ fp' = [fp EXCEPT !.pc = "evaluate_train"]
  /\ UNCHANGED <<pc, emu, env, policy, a2c, fit>>

\* model.evaluate(dataset, [metric], transformers): predictions for every
\* sample, scored against the labels task by task
Evaluate(dataset, next) ==
  LET out == Predict(fp.model, dataset.X)
  IN  IF out = dataset.y /\ out = dataset.w
      THEN fp' = [fp EXCEPT !.pred = out, !.pc = next]
      ELSE fp' = [fp EXCEPT !.pred = out, !.pc = "ShapeError"]

\* print('training set score:', model.evaluate(train_dataset, ...))
EvaluateTrain ==
  /\ fp.pc = "evaluate_train"
  /\ Evaluate(fp.train, "evaluate_test")
  /\ UNCHANGED <<pc, emu, env, policy, a2c, fit>>

\* print('test set score:', model.evaluate(test_dataset, ...))
EvaluateTest ==
  /\ fp.pc = "evaluate_test"
  /\ Evaluate(fp.test, "done")
  /\ UNCHANGED <<pc, emu, env, policy, a2c, fit>>

FpIdle == [pc |-> "idle"]

Init ==
  /\ pc = "cell_env"
  /\ emu = Undefined
  /\ env = Undefined
  /\ policy = Undefined
  /\ a2c = Undefined
  /\ fit = [status |-> "not_called", step_count |-> 0]
  /\ fp = FpIdle

Next ==
  \/ EnvCell
  \/ PolicyCell
  \/ A2CCell
  \/ FitCall
  \/ FitRollout
  \/ FitReturn
  \/ PlayReset
  \/ PlayTest
  \/ PlayBody

Spec == Init /\ [][Next]_vars

\* The fingerprint notebook runs in a kernel of its own.
FpInit ==
  /\ pc = "idle"
  /\ emu = Undefined
  /\ env = Undefined
  /\ policy = Undefined
  /\ a2c = Undefined
  /\ fit = [status |-> "not_called", step_count |-> 0]
  /\ fp = FpStart

FpNext ==
  \/ LoadTox21
  \/ ModelCell
  \/ FitBatch
  \/ FitDone
  \/ EvaluateTrain
  \/ EvaluateTest

SpecFingerprints == FpInit /\ [][FpNext]_vars

----------------------------------------------------------------------------
(* Claims about the Pong notebook *)

HoldsFrame == env.defined /\ Shape2(env._state) = <<FrameShape[1], FrameShape[2]>>

\* C1: whenever the environment holds a 210 x 160 x 3 screen, PongEnv.state
\* is an array of shape exactly (80, 80): the crop has 160 rows and 160
\* columns, the reduction keeps indices 0, 2, ..., 158 of each, and the shape
\* equals the declared _state_shape and the shape of the policy model's
\* state input, so select_action never rejects it.
C1_StateShape ==
  HoldsFrame =>
    LET crop == cropped(env._state)
        red == reduced(env._state)
        x == state(env)
    IN  /\ Shape2(crop) = <<160, 160>>
        /\ DOMAIN red = 0 .. 79
        /\ \A i \in 0 .. 79 :
             /\ DOMAIN red[i] = 0 .. 79
             /\ \A j \in 0 .. 79 : red[i][j] = crop[2 * i][2 * j]
        /\ Shape2(x) = <<80, 80>>
        /\ Shape2(x) = env._state_shape
        /\ a2c.defined => Shape2(x) = a2c.model.inputs[1].shape
        /\ pc # "ShapeError"

\* C1 witness: the loop has stepped with the state of a held screen and is
\* about to take the state of the next one.
C1_Witness ==
  /\ HoldsFrame
  /\ pc = "play_body"
  /\ a2c.defined /\ a2c.rnn_states[1][0] = 1
  /\ Shape2(state(env)) = <<80, 80>>

\* C2: every element of PongEnv.state is 0 or 1, and element (i, j) is 0
\* exactly when the three channels of raw pixel (34 + 2i, 2j) sum to 233.
C2_BlackAndWhite ==
  HoldsFrame =>
    LET x == state(env)
    IN  \A i \in 0 .. 79 :
          LET raw_row == env._state[34 + 2 * i]
              x_row == x[i]
          IN  \A j \in 0 .. 79 :
                LET raw == raw_row[2 * j]
                IN  /\ x_row[j] \in {0, 1}
                    /\ x_row[j] = 0 <=> raw[0] + raw[1] + raw[2] = 233

\* C2 witness: a held screen whose state has both a 0 and a 1, with the
\* sprite on a pixel the reduction keeps.
C2_Witness ==
  /\ HoldsFrame
  /\ emu.row = 192 /\ emu.col = 158
  /\ state(env)[79][79] # state(env)[0][0]

\* C3: the policy model's action_prob output has one entry per action of
\* the environment, and that number is three.
C3_ThreeActions ==
  a2c.defined =>
    LET probs == a2c.model.outputs[IndexOf(a2c.output_names, "action_prob")]
    IN  /\ probs.layer = "Dense.softmax"
        /\ probs.shape = <<env.n_actions>>
        /\ env.n_actions = 3

\* C4: the declared output names correspond in order to the model outputs
\* [action_prob, value, rnn_final_state]; the one declared initial recurrent
\* state, sixteen zeros, corresponds to the one extra model input of shape
\* (16,); the final state has the length of that input, and so has the state
\* every select_action call saves for the next call.
C4_RecurrentState ==
  a2c.defined =>
    LET m == a2c.model
    IN  /\ a2c.output_names = <<"action_prob", "value", "rnn_state">>
        /\ Len(m.outputs) = Len(a2c.output_names)
        /\ m.outputs[1].layer = "Dense.softmax"
        /\ m.outputs[2].layer = "Dense" /\ m.outputs[2].shape = <<1>>
        /\ m.outputs[3].layer = "GRU.state"
        /\ Len(policy.rnn_initial_states) = 1
        /\ Len(m.inputs) = 1 + Len(policy.rnn_initial_states)
        /\ policy.rnn_initial_states[1] = [k \in 0 .. 15 |-> 0]
        /\ m.inputs[2].shape = <<16>>
        /\ m.outputs[3].shape = m.inputs[2].shape
        /\ <<Size(a2c.rnn_states[1])>> = m.inputs[2].shape
        /\ pc # "ShapeError"

\* C4 witness: a select_action call has saved a final state and the loop is
\* about to feed it to the next call.
C4_Witness ==
  /\ pc = "play_body"
  /\ a2c.defined
  /\ a2c.rnn_states[1] = [k \in 0 .. 15 |-> 1]

\* C5: the cells run one after another and every object exists before its
\* first use: the policy's model is built (reading env.n_actions) only once
\* env exists, A2C only once env and policy exist, fit only once a2c exists,
\* fit is running only while the kernel is inside it, and the playback loop
\* (env.reset, select_action) runs only after fit has returned.
C5_Order ==
  /\ pc \notin {"NameError", "ActionError"}
  /\ policy.defined => env.defined
  /\ a2c.defined => env.defined /\ policy.defined
  /\ fit.status # "not_called" => a2c.defined
  /\ fit.status = "running" <=> pc = "fit_loop"
  /\ emu.defined /\ emu.reset => fit.status = "returned"
  /\ pc \in {"play_test", "play_body"} => a2c.defined /\ fit.status = "returned"

\* C5 witness: the whole notebook has run, through fit and a finished game.
C5_Witness ==
  /\ pc = "done"
  /\ fit.status = "returned"
  /\ emu.defined /\ emu.reset
  /\ a2c.rnn_states[1][0] = 1

----------------------------------------------------------------------------
(* Claims about the fingerprint notebook *)

\* C6: every split of the featurized dataset has fingerprints of length 1024
\* and 12 labels and 12 weights per sample, with the same number of samples
\* in X, y and w; the classifier is configured with n_features = 1024 and
\* n_tasks = 12, so no batch is rejected and predictions have one entry per
\* task and sample.
C6_Dimensions ==
  /\ fp.pc # "ShapeError"
  /\ fp.train # <<>> =>
       \A d \in {fp.train, fp.valid, fp.test} :
         /\ d.X[2] = 1024 /\ d.y[2] = 12 /\ d.w[2] = 12
         /\ d.X[1] = d.y[1] /\ d.y[1] = d.w[1]
         /\ fp.model.defined =>
              /\ fp.model.n_features = d.X[2]
              /\ fp.model.n_tasks = d.y[2]
              /\ Predict(fp.model, d.X) = <<d.X[1], 12>>
  /\ fp.pc = "evaluate_test" => fp.pred = <<fp.train.X[1], 12>>
  /\ fp.pc = "done" => fp.pred = <<fp.test.X[1], 12>>

\* C6 witness: the model has been fitted for ten epochs and evaluated on the
\* training and the test set.
C6_Witness ==
  /\ fp.pc = "done"
  /\ fp.epoch = 10
  /\ fp.pred = <<fp.test.X[1], 12>>

=============================================================================
